---- MODULE Spec2Model ----
(***************************************************************************)
(* A model of flyteadmin's authentication context and dual-protocol        *)
(* gateway: auth/auth_context.go and cmd/entrypoints/serve.go.              *)
(*                                                                         *)
(* Go strings are TLA+ strings handled character by character (Len,        *)
(* SubSeq, \o).  A nil pointer or interface is the string "nil"; a nil     *)
(* error is the string "nil".                                              *)
(***************************************************************************)
EXTENDS Integers, Sequences, FiniteSets, TLC

VARIABLES
    options,      \* *config.Config handed to NewAuthenticationContext
    sm,           \* core.SecretManager: secret name -> [found, val]
    fs,           \* the local file system: path -> [found, val]
    ext,          \* outcomes of the external steps (IdP discovery, url.Parse, TLS files, sockets)
    cfg,          \* *config.ServerConfig: Security.Secure, Security.UseAuth
    pc,           \* position of the serve command
    setup,        \* the last NewAuthenticationContext call: [done, ctx, err, calls]
    authContext,  \* the authContext local of serveGatewaySecure
    grpcServer,   \* the *grpc.Server built by newGRPCServer
    httpServer,   \* the *http.ServeMux built by newHTTPServer
    listeners,    \* addresses with an open TCP listener
    serving,      \* servers accepting requests
    retErr,       \* the error RunE returned ("nil" while running)
    demux,        \* the connection seen by grpcHandlerFunc: last request and who served it
    rpc,          \* the unary RPC in flight through the interceptor chain
    oauth2Call,   \* the last OAuth2ClientConfig call: [done, requestUrl, result]
    registry,     \* the workflow-executor registry: [executor, defaultExecutor]
    registryCalls, \* the Register / RegisterDefault calls made on the registry, oldest first
    dbError,      \* the last ToFlyteAdminError call: [done, err, result]
    prepare,      \* the last PrepareFlyteWorkflow call: [done, input, before, flyteWorkflow, err]
    lp,           \* the last launch plan validated: the request and what each check returned
    forks         \* the concurrent OAuth2ClientConfig calls: goroutine -> [pc, requestUrl, useDefault, result]

vars == <<options, sm, fs, ext, cfg, pc, setup, authContext, grpcServer, httpServer,
          listeners, serving, retErr, demux, rpc, oauth2Call, registry, registryCalls,
          dbError, prepare, lp, forks>>

\* What the serve command and its requests leave alone: the packages beside the
\* gateway (pkg/...) and the handlers calling OAuth2ClientConfig concurrently.
pkgs == <<registry, registryCalls, dbError, prepare, lp, forks>>
world == <<options, sm, fs, ext, cfg, pkgs>>
server == <<pc, authContext, grpcServer, httpServer, listeners, serving, retErr>>

-----------------------------------------------------------------------------
(* Bounds *)

\* Longest secret value the secret manager holds, in characters.
MaxSecretLen == 3

\* Most Register / RegisterDefault calls made on one registry.
MaxRegistryCalls == 4

\* Handlers calling OAuth2ClientConfig at the same time.
MaxCallers == 2

-----------------------------------------------------------------------------
(* strings.HasPrefix, strings.HasSuffix, strings.TrimSuffix, strings.Contains *)

HasPrefix(s, prefix) ==
    Len(prefix) <= Len(s) /\ SubSeq(s, 1, Len(prefix)) = prefix

HasSuffix(s, suffix) ==
    Len(suffix) <= Len(s) /\ SubSeq(s, Len(s) - Len(suffix) + 1, Len(s)) = suffix

TrimSuffix(s, suffix) ==
    IF HasSuffix(s, suffix) THEN SubSeq(s, 1, Len(s) - Len(suffix)) ELSE s

Contains(s, substr) ==
    \E i \in 1..(Len(s) - Len(substr) + 1) : SubSeq(s, i, i + Len(substr) - 1) = substr

\* All strings over alphabet of length at most n.
RECURSIVE StringsUpTo(_, _)
StringsUpTo(alphabet, n) ==
    IF n = 0 THEN {""}
    ELSE LET shorter == StringsUpTo(alphabet, n - 1)
         IN  shorter \cup {s \o c : s \in shorter, c \in alphabet}

-----------------------------------------------------------------------------
(* net/url: a URL is [Nil, Scheme, User, Host, Path]; User "" is no userinfo. *)
(* Hosts, users and paths of the model hold no character that String()         *)
(* percent-escapes.                                                            *)

URL(scheme, user, host, path) ==
    [Nil |-> FALSE, Scheme |-> scheme, User |-> user, Host |-> host, Path |-> path]

NilURL == [Nil |-> TRUE, Scheme |-> "", User |-> "", Host |-> "", Path |-> ""]

callbackRelativeUrl == URL("", "", "", "/callback")
rootRelativeUrl == URL("", "", "", "/")

\* (*URL).String(): scheme ":" ["//" [user "@"] host] path
URLString(u) ==
    LET scheme == IF u.Scheme # "" THEN u.Scheme \o ":" ELSE ""
        authority ==
            IF u.Scheme # "" \/ u.Host # "" \/ u.User # ""
            THEN (IF u.Host # "" \/ u.Path # "" \/ u.User # "" THEN "//" ELSE "")
                 \o (IF u.User # "" THEN u.User \o "@" ELSE "")
                 \o u.Host
            ELSE ""
        path == IF u.Path # "" /\ SubSeq(u.Path, 1, 1) # "/" /\ u.Host # ""
                THEN "/" \o u.Path ELSE u.Path
    IN  scheme \o authority \o path

\* (*URL).ResolveReference(ref) for the references the program uses: no scheme,
\* no host, no userinfo and an absolute path, which replaces the base's path.
ResolveReference(u, ref) ==
    URL(u.Scheme, u.User, u.Host, ref.Path)

-----------------------------------------------------------------------------
(* oauth2.Config and auth.Context *)

\* Addr tells the default descriptor (the one the Context points to) from a
\* freshly allocated one; "nil" is the nil pointer.
NilConfig ==
    [Addr |-> "nil", RedirectURL |-> "", ClientID |-> "", ClientSecret |-> "",
     Scopes |-> <<>>, Endpoint |-> ""]

NilAuthService ==
    [OAuth2MetadataProvider |-> "nil", OIdCUserInfoProvider |-> "nil", authInterceptor |-> "nil"]

\* Context{}: the zero value.
ZeroContext ==
    [oauth2Client |-> NilConfig, cookieManager |-> "nil", oidcProvider |-> "nil",
     options |-> "nil", oauth2Provider |-> "nil", oauth2ResourceServer |-> "nil",
     AuthServiceImpl |-> NilAuthService, userInfoURL |-> "nil",
     oauth2MetadataURL |-> "nil", oidcMetadataURL |-> "nil", httpClient |-> "nil"]

ErrauthCtx == "AUTH_CONTEXT_SETUP_FAILED"
ErrConfigFileRead == "CONFIG_OPTION_FILE_READ_FAILED"

-----------------------------------------------------------------------------
(* GetOAuth2ClientConfig *)

\* A call the construction makes on a collaborator, as recorded in calls.
Call(op, arg) == op \o "(" \o arg \o ")"

\* The path handed to ioutil.ReadFile when the deprecated option is set.
ClientSecretFilePath(openid) == openid.ClientSecretName

\* The branch that fetches the secret: [val, err, calls].
ResolveClientSecret(openid, secrets, files) ==
    IF Len(openid.DeprecatedClientSecretFile) > 0
    THEN LET path == ClientSecretFilePath(openid)
             file == files[path]
         IN  [val |-> IF file.found THEN file.val ELSE "",
              err |-> IF file.found THEN "nil" ELSE "open: no such file or directory",
              calls |-> <<Call("ioutil.ReadFile", path)>>]
    ELSE LET got == secrets[openid.ClientSecretName]
         IN  [val |-> IF got.found THEN got.val ELSE "",
              err |-> IF got.found THEN "nil" ELSE "secret not found",
              calls |-> <<Call("sm.Get", openid.ClientSecretName)>>]

\* strings.TrimRight(secret, "\n") in place of TrimSuffix: every trailing newline goes.
RECURSIVE TrimSecret_AllNewlines(_)
TrimSecret_AllNewlines(secret) ==
    IF HasSuffix(secret, "\n")
    THEN TrimSecret_AllNewlines(SubSeq(secret, 1, Len(secret) - 1))
    ELSE secret

\* secret = strings.TrimSuffix(secret, "\n")
TrimSecret(secret) == TrimSuffix(secret, "\n")

\* Returns [cfg, err, calls].
GetOAuth2ClientConfig(openid, publicHTTPBaseUrl, providerEndpoints, secrets, files) ==
    LET r == ResolveClientSecret(openid, secrets, files)
    IN  IF r.err # "nil"
        THEN [cfg |-> NilConfig, err |-> r.err, calls |-> r.calls]
        ELSE [cfg |-> [Addr |-> "c.oauth2Client",
                       RedirectURL |-> URLString(ResolveReference(publicHTTPBaseUrl,
                                                                  callbackRelativeUrl)),
                       ClientID |-> openid.ClientID,
                       ClientSecret |-> TrimSecret(r.val),
                       Scopes |-> openid.Scopes,
                       Endpoint |-> providerEndpoints],
              err |-> "nil", calls |-> r.calls]

-----------------------------------------------------------------------------
(* NewAuthenticationContext *)

\* Cookie keys that decode to keys of a legal size.
WellFormedKeys == {"a2V5"}

\* NewCookieManager(ctx, hashKeyBase64, blockKeyBase64): [cm, err]
NewCookieManager(hashKeyBase64, blockKeyBase64) ==
    IF hashKeyBase64 \in WellFormedKeys /\ blockKeyBase64 \in WellFormedKeys
    THEN [cm |-> "cookieManager", err |-> "nil"]
    ELSE [cm |-> "nil", err |-> "illegal base64 data"]

\* A failure that hands back what was built so far instead of Context{}.
SetupFailure_Partial(code, calls) ==
    [done |-> TRUE,
     ctx |-> [ZeroContext EXCEPT !.options = "options", !.httpClient = "httpClient"],
     err |-> code, calls |-> calls]

\* return Context{}, errors.Wrapf(code, err, ...)
SetupFailure(code, calls) ==
    [done |-> TRUE, ctx |-> ZeroContext, err |-> code, calls |-> calls]

\* A missing cookie secret reported under the general setup code.
SecretReadFailure_AuthCtxCode(calls) ==
    [done |-> TRUE, ctx |-> ZeroContext, err |-> ErrauthCtx, calls |-> calls]

\* A missing cookie secret: return Context{}, errors.Wrapf(ErrConfigFileRead, ...)
SecretReadFailure(calls) == SetupFailure(ErrConfigFileRead, calls)

\* authCtx := Context{...}; authCtx.AuthServiceImpl = authSvc
BuildContext(opts, oauth2Config, provider, cookieManager, oauth2Provider, oauth2ResourceServer, metadataProvider, infoProvider) ==
    [oauth2Client |-> oauth2Config,
     cookieManager |-> cookieManager,
     oidcProvider |-> provider,
     options |-> "options",
     oauth2Provider |-> oauth2Provider,
     oauth2ResourceServer |-> oauth2ResourceServer,
     AuthServiceImpl |-> [OAuth2MetadataProvider |-> metadataProvider,
                          OIdCUserInfoProvider |-> infoProvider,
                          authInterceptor |-> "GetAuthenticationInterceptor(authCtx)"],
     userInfoURL |-> "nil",
     oauth2MetadataURL |-> "oauth2MetadataURL",
     oidcMetadataURL |-> "oidcMetadataURL",
     httpClient |-> "httpClient"]

\* A construction that fetches both cookie keys before it looks at either error.
NewAuthenticationContext_FetchBothKeys(secrets, files, outcome, oauth2Provider, oauth2ResourceServer, metadataProvider, infoProvider, opts) ==
    LET hash == secrets[opts.UserAuth.CookieHashKeySecretName]
        block == secrets[opts.UserAuth.CookieBlockKeySecretName]
        c1 == <<Call("sm.Get", opts.UserAuth.CookieHashKeySecretName)>>
        c2 == Append(c1, Call("sm.Get", opts.UserAuth.CookieBlockKeySecretName))
        cm == NewCookieManager(hash.val, block.val)
        c3 == Append(c2, "NewCookieManager")
        c4 == Append(c3, Call("oidc.NewProvider", opts.UserAuth.OpenID.BaseURL))
        oa == GetOAuth2ClientConfig(opts.UserAuth.OpenID, opts.HTTPPublicUri,
                                    "provider.Endpoint()", secrets, files)
        c5 == c4 \o oa.calls
        c6 == Append(c5, "url.Parse(OAuth2MetadataEndpoint)")
        c7 == Append(c6, "url.Parse(OIdCMetadataEndpoint)")
    IN  IF ~hash.found THEN SecretReadFailure(c2)
        ELSE IF ~block.found THEN SecretReadFailure(c2)
        ELSE IF cm.err # "nil" THEN SetupFailure(ErrauthCtx, c3)
        ELSE IF ~outcome.oidcDiscovery THEN SetupFailure(ErrauthCtx, c4)
        ELSE IF oa.err # "nil" THEN SetupFailure(ErrauthCtx, c5)
        ELSE IF ~outcome.oauth2MetadataParse THEN SetupFailure(ErrauthCtx, c6)
        ELSE IF ~outcome.oidcMetadataParse THEN SetupFailure(ErrauthCtx, c7)
        ELSE [done |-> TRUE,
              ctx |-> BuildContext(opts, oa.cfg, "oidcProvider", cm.cm, oauth2Provider,
                                   oauth2ResourceServer, metadataProvider, infoProvider),
              err |-> "nil",
              calls |-> Append(c7, "GetAuthenticationInterceptor")]

\* Returns [done, ctx, err, calls]; calls lists the collaborators reached, in order.
NewAuthenticationContext(secrets, files, outcome, oauth2Provider, oauth2ResourceServer, metadataProvider, infoProvider, opts) ==
    LET hash == secrets[opts.UserAuth.CookieHashKeySecretName]
        block == secrets[opts.UserAuth.CookieBlockKeySecretName]
        c1 == <<Call("sm.Get", opts.UserAuth.CookieHashKeySecretName)>>
        c2 == Append(c1, Call("sm.Get", opts.UserAuth.CookieBlockKeySecretName))
        cm == NewCookieManager(hash.val, block.val)
        c3 == Append(c2, "NewCookieManager")
        c4 == Append(c3, Call("oidc.NewProvider", opts.UserAuth.OpenID.BaseURL))
        oa == GetOAuth2ClientConfig(opts.UserAuth.OpenID, opts.HTTPPublicUri,
                                    "provider.Endpoint()", secrets, files)
        c5 == c4 \o oa.calls
        c6 == Append(c5, "url.Parse(OAuth2MetadataEndpoint)")
        c7 == Append(c6, "url.Parse(OIdCMetadataEndpoint)")
    IN  IF ~hash.found THEN SecretReadFailure(c1)
        ELSE IF ~block.found THEN SecretReadFailure(c2)
        ELSE IF cm.err # "nil" THEN SetupFailure(ErrauthCtx, c3)
        ELSE IF ~outcome.oidcDiscovery THEN SetupFailure(ErrauthCtx, c4)
        ELSE IF oa.err # "nil" THEN SetupFailure(ErrauthCtx, c5)
        ELSE IF ~outcome.oauth2MetadataParse THEN SetupFailure(ErrauthCtx, c6)
        ELSE IF ~outcome.oidcMetadataParse THEN SetupFailure(ErrauthCtx, c7)
        ELSE [done |-> TRUE,
              ctx |-> BuildContext(opts, oa.cfg, "oidcProvider", cm.cm, oauth2Provider,
                                   oauth2ResourceServer, metadataProvider, infoProvider),
              err |-> "nil",
              calls |-> Append(c7, "GetAuthenticationInterceptor")]

NoSetup == [done |-> FALSE, ctx |-> ZeroContext, err |-> "nil", calls |-> <<>>]

-----------------------------------------------------------------------------
(* The world the server starts in *)

DeprecatedSecretPath == "/etc/secrets/client_secret"

PublicURLs == {URL("https", "", "a.example", ""), URL("http", "", "a.example:8088", "/console")}

Options(deprecatedFile, publicUri) ==
    [UserAuth |-> [CookieHashKeySecretName |-> "cookie_hash_key",
                   CookieBlockKeySecretName |-> "cookie_block_key",
                   OpenID |-> [BaseURL |-> "https://idp.example",
                               ClientID |-> "flyte-client",
                               ClientSecretName |-> "oidc_client_secret",
                               DeprecatedClientSecretFile |-> deprecatedFile,
                               Scopes |-> <<"openid", "profile">>]],
     HTTPPublicUri |-> publicUri]

OptionsSet == {Options(d, u) : d \in {"", DeprecatedSecretPath}, u \in PublicURLs}

Absent == [found |-> FALSE, val |-> ""]
Present(v) == [found |-> TRUE, val |-> v]

CookieKeyEntries == {Absent, Present("a2V5"), Present("not base64!")}
ClientSecretEntries == {Absent} \cup {Present(v) : v \in StringsUpTo({"s", "\n"}, MaxSecretLen)}
FileEntries == {Absent, Present("f"), Present("f\n")}

SecretStores ==
    {[cookie_hash_key |-> h, cookie_block_key |-> b, oidc_client_secret |-> c] :
        h \in CookieKeyEntries, b \in CookieKeyEntries, c \in ClientSecretEntries}

FileSystems ==
    {(DeprecatedSecretPath :> d) @@ ("oidc_client_secret" :> n) :
        d \in FileEntries, n \in FileEntries}

Outcome(oidc, p1, p2, ssl, reg, lis) ==
    [oidcDiscovery |-> oidc, oauth2MetadataParse |-> p1, oidcMetadataParse |-> p2,
     sslCredentials |-> ssl, registerGateway |-> reg, listen |-> lis]

SetupOutcomes == {Outcome(o, p1, p2, TRUE, TRUE, TRUE) : o \in BOOLEAN, p1 \in BOOLEAN, p2 \in BOOLEAN}

ServerConfig(secure, useAuth) == [Secure |-> secure, UseAuth |-> useAuth]

-----------------------------------------------------------------------------
(* Values before anything has run *)

NoServer ==
    [built |-> FALSE, chain |-> <<>>, authContextIsNil |-> TRUE, services |-> {}, creds |-> "nil"]
NoMux == [built |-> FALSE, routes |-> {}, authContextIsNil |-> TRUE]
NoDemux == [ProtoMajor |-> 0, ContentType |-> <<>>, servedBy |-> "nil", previous |-> "nil"]
NoRpc ==
    [pc |-> "idle", service |-> "", method |-> "",
     inCtx |-> [cred |-> "none", identity |-> ""], ctx |-> [cred |-> "none", identity |-> ""],
     i |-> 0, started |-> FALSE, authRan |-> FALSE, authFuncRan |-> FALSE, authErr |-> "none",
     handlerRan |-> FALSE, handlerIdentity |-> "", err |-> "none", observed |-> "none"]
NoOAuth2Call == [done |-> FALSE, requestUrl |-> NilURL, result |-> NilConfig]

ServerIdle ==
    /\ pc = "RunE"
    /\ authContext = ZeroContext
    /\ grpcServer = NoServer
    /\ httpServer = NoMux
    /\ listeners = {}
    /\ serving = {}
    /\ retErr = "nil"

RequestsIdle ==
    /\ demux = NoDemux
    /\ rpc = NoRpc
    /\ oauth2Call = NoOAuth2Call

\* The registry as constructed: no executor, no default.
NewRegistry == [executor |-> "nil", defaultExecutor |-> "nil"]

\* No error transformed yet.
NoTransform ==
    [done |-> FALSE, err |-> [isPg |-> FALSE, Code |-> "", Message |-> ""],
     result |-> [kind |-> "nil", code |-> "", message |-> ""]]

\* A nil error, shaped as a FlyteAdminError.
NilError == [kind |-> "nil", code |-> "", message |-> ""]

\* A Go map[string]string over the keys of MapKeys: nil or not, and its entries.
MapKeys == {"iam.amazonaws.com/role", "team"}
GoMap(isNil, at) == [Nil |-> isNil, at |-> at]
NilMap == GoMap(TRUE, [k \in MapKeys |-> Absent])

\* (*admin.AuthRole)(nil), (*v1alpha1.FlyteWorkflow)(nil), PrepareFlyteWorkflowInput{}
NilAuthRole == [Nil |-> TRUE, AssumableIamRole |-> "", KubernetesServiceAccount |-> ""]
NilExecutionConfig == [Set |-> FALSE, MaxParallelism |-> 0, RecoveryExecution |-> "nil"]
NilFlyteWorkflow ==
    [Nil |-> TRUE, ExecutionID |-> "nil", AcceptedAt |-> "nil", ServiceAccountName |-> "",
     Labels |-> NilMap, Annotations |-> NilMap, EventVersion |-> 0,
     ExecutionConfig |-> NilExecutionConfig, RawOutputDataConfig |-> "nil"]
ZeroPrepareInput ==
    [ExecutionID |-> "nil", AcceptedAt |-> "nil", Labels |-> NilMap, Annotations |-> NilMap,
     ExecutionConfig |-> [Nil |-> TRUE, MaxParallelism |-> 0], Auth |-> NilAuthRole,
     RecoveryExecution |-> "nil",
     EventVersion |-> 0, RoleNameKey |-> "", RawOutputDataConfig |-> "nil"]
NoPrepare ==
    [done |-> FALSE, input |-> ZeroPrepareInput, before |-> NilFlyteWorkflow,
     flyteWorkflow |-> NilFlyteWorkflow, err |-> NilError]

\* The input names a workflow interface or a launch plan may mention.  A map keyed by
\* input name is a function over InputNames whose entries are found or not.
InputNames == {"kickoff_time", "x"}
NoVariable == [found |-> FALSE, Type |-> "", Description |-> ""]
NoParameter == [found |-> FALSE, Var |-> [Type |-> "", Description |-> ""], Behavior |-> ""]
NoLiteral == [found |-> FALSE, Type |-> ""]
NoParameters == [name \in InputNames |-> NoParameter]

\* (*core.ParameterMap)(nil) and (*admin.Schedule)(nil), whose getters give zero values.
NilParameterMap == [Nil |-> TRUE, Parameters |-> NoParameters]
NilSchedule == [CronExpression |-> "", Rate |-> "nil", KickoffTimeInputArg |-> ""]
NoLaunchPlan ==
    [done |-> FALSE,
     workflowInputs |-> [name \in InputNames |-> NoVariable],
     fixedInputs |-> [name \in InputNames |-> NoLiteral],
     defaultInputs |-> NoParameters,
     specDefaultInputs |-> NoParameters,
     schedule |-> NilSchedule,
     expectedInputs |-> NilParameterMap,
     fetchErr |-> NilError,
     scheduleChecked |-> FALSE,
     scheduleErr |-> NilError,
     err |-> NilError]

\* The goroutines serving requests, none of them inside OAuth2ClientConfig.
Goroutines == 1..MaxCallers
NoFork == [pc |-> "idle", requestUrl |-> NilURL, useDefault |-> FALSE, result |-> NilConfig]

PkgsIdle ==
    /\ registry = NewRegistry
    /\ registryCalls = <<>>
    /\ dbError = NoTransform
    /\ prepare = NoPrepare
    /\ lp = NoLaunchPlan
    /\ forks = [g \in Goroutines |-> NoFork]

-----------------------------------------------------------------------------
(* Specification SpecSetup: NewAuthenticationContext over every world *)

InitSetup ==
    /\ options \in OptionsSet
    /\ sm \in SecretStores
    /\ fs \in FileSystems
    /\ ext \in SetupOutcomes
    /\ cfg = ServerConfig(TRUE, TRUE)
    /\ setup = NoSetup
    /\ ServerIdle
    /\ RequestsIdle
    /\ PkgsIdle

\* One call of NewAuthenticationContext with the providers the caller supplies.
Construct ==
    /\ ~setup.done
    /\ \E oauth2Provider \in {"nil", "oauth2Provider"} :
          setup' = NewAuthenticationContext(sm, fs, ext, oauth2Provider, "oauth2ResourceServer",
                                            "metadataProvider", "infoProvider", options)
    /\ UNCHANGED <<world, server, demux, rpc, oauth2Call>>

NextSetup == Construct

SpecSetup == InitSetup /\ [][NextSetup]_vars

-----------------------------------------------------------------------------
(* Context.OAuth2ClientConfig *)

\* A variant that forks for every request, whatever the default redirect URL is.
OAuth2ClientConfig_AlwaysFork(c, requestUrl) ==
    [Addr |-> "new",
     RedirectURL |-> URLString(ResolveReference(requestUrl, callbackRelativeUrl)),
     ClientID |-> c.oauth2Client.ClientID,
     ClientSecret |-> c.oauth2Client.ClientSecret,
     Scopes |-> c.oauth2Client.Scopes,
     Endpoint |-> c.oauth2Client.Endpoint]

OAuth2ClientConfig(c, requestUrl) ==
    IF \/ requestUrl.Nil
       \/ HasPrefix(c.oauth2Client.RedirectURL,
                    URLString(ResolveReference(requestUrl, rootRelativeUrl)))
    THEN c.oauth2Client
    ELSE [Addr |-> "new",
          RedirectURL |-> URLString(ResolveReference(requestUrl, callbackRelativeUrl)),
          ClientID |-> c.oauth2Client.ClientID,
          ClientSecret |-> c.oauth2Client.ClientSecret,
          Scopes |-> c.oauth2Client.Scopes,
          Endpoint |-> c.oauth2Client.Endpoint]

\* The request URLs handed to OAuth2ClientConfig: absolute URLs, with or without
\* userinfo; scheme-relative ones; and URLs that are only a path, as the URL of a
\* request read by an HTTP server is.
RequestHosts == {"a.example", "b.example", "a.example:8088", "a.exam", "a.example.org"}

RequestURLs ==
    {URL(scheme, user, host, path) :
        scheme \in {"http", "https"}, user \in {"", "u"}, host \in RequestHosts,
        path \in {"", "/login", "console/y"}}
    \cup {URL("", "", host, path) : host \in RequestHosts, path \in {"", "/login"}}
    \cup {URL("", "", "", path) : path \in {"/", "/login", "/callback"}}
    \cup {URL("https", "", "", "/login")}

\* A world in which every step of the construction succeeds.
GoodSecretStore ==
    [cookie_hash_key |-> Present("a2V5"), cookie_block_key |-> Present("a2V5"),
     oidc_client_secret |-> Present("s\n")]

NoFiles == (DeprecatedSecretPath :> Absent) @@ ("oidc_client_secret" :> Absent)

-----------------------------------------------------------------------------
(* Specification SpecRedirect: OAuth2ClientConfig on a constructed Context *)

InitRedirect ==
    /\ options \in {Options("", u) : u \in PublicURLs}
    /\ sm = GoodSecretStore
    /\ fs = NoFiles
    /\ ext = Outcome(TRUE, TRUE, TRUE, TRUE, TRUE, TRUE)
    /\ cfg = ServerConfig(TRUE, TRUE)
    /\ setup = NewAuthenticationContext(sm, fs, ext, "oauth2Provider", "oauth2ResourceServer",
                                        "metadataProvider", "infoProvider", options)
    /\ authContext = setup.ctx
    /\ pc = "RunE"
    /\ grpcServer = NoServer
    /\ httpServer = NoMux
    /\ listeners = {}
    /\ serving = {}
    /\ retErr = "nil"
    /\ RequestsIdle
    /\ PkgsIdle

\* A handler asks for the descriptor to use for one inbound request.
OAuth2ClientConfigCall ==
    /\ \E requestUrl \in RequestURLs \cup {NilURL} :
          oauth2Call' = [done |-> TRUE, requestUrl |-> requestUrl,
                         result |-> OAuth2ClientConfig(authContext, requestUrl)]
    /\ UNCHANGED <<world, server, setup, demux, rpc>>

NextRedirect == OAuth2ClientConfigCall

SpecRedirect == InitRedirect /\ [][NextRedirect]_vars

-----------------------------------------------------------------------------
(* serve.go: building the servers *)

\* The chain with the authentication interceptor outermost.
chainedUnaryInterceptors_AuthOutermost(useAuth) ==
    IF useAuth
    THEN <<"grpcauth.UnaryServerInterceptor", "grpc_prometheus.UnaryServerInterceptor",
           "auth.AuthenticationLoggingInterceptor">>
    ELSE <<"grpc_prometheus.UnaryServerInterceptor">>

\* grpc_middleware.ChainUnaryServer(...): the first interceptor is the outermost.
chainedUnaryInterceptors(useAuth) ==
    IF useAuth
    THEN <<"grpc_prometheus.UnaryServerInterceptor", "grpcauth.UnaryServerInterceptor",
           "auth.AuthenticationLoggingInterceptor">>
    ELSE <<"grpc_prometheus.UnaryServerInterceptor">>

\* The services the gRPC server answers for: the admin service, and the
\* authentication service of a constructed Context.
RegisteredServices(authCtx) ==
    {"AdminService"} \cup (IF authCtx = ZeroContext THEN {} ELSE {"AuthService"})

\* newGRPCServer(ctx, cfg, authContext, opts...); authCtx is ZeroContext for nil.
newGRPCServer(config, authCtx, creds) ==
    [built |-> TRUE,
     chain |-> chainedUnaryInterceptors(config.UseAuth),
     authContextIsNil |-> (authCtx = ZeroContext),
     services |-> RegisteredServices(authCtx),
     creds |-> creds]

\* The routes newHTTPServer registers on the mux.
muxRoutes(useAuth) ==
    {"/healthcheck", "/api/v1/openapi", "/"}
        \cup (IF useAuth THEN {"/login_page", "/login", "/callback"} ELSE {})

\* newHTTPServer(ctx, cfg, authContext, grpcAddress, ...): [mux, err]
newHTTPServer(config, authCtx, registerOK) ==
    IF registerOK
    THEN [mux |-> [built |-> TRUE, routes |-> muxRoutes(config.UseAuth),
                   authContextIsNil |-> (authCtx = ZeroContext)],
          err |-> "nil"]
    ELSE [mux |-> [built |-> FALSE, routes |-> {}, authContextIsNil |-> TRUE],
          err |-> "error registering admin service"]

\* return err: RunE ends and the process with it.
Return(err) ==
    /\ pc' = "returned"
    /\ retErr' = err
    /\ serving' = {}

-----------------------------------------------------------------------------
(* serve.go: the serve command *)

\* RunE: if serverConfig.Security.Secure { serveGatewaySecure } else { serveGatewayInsecure }
RunE ==
    /\ pc = "RunE"
    /\ pc' = IF cfg.Secure THEN "secure:GetSslCredentials" ELSE "insecure:newGRPCServer"
    /\ UNCHANGED <<world, setup, authContext, grpcServer, httpServer, listeners, serving,
                   retErr, demux, rpc, oauth2Call>>

Secure_GetSslCredentials ==
    /\ pc = "secure:GetSslCredentials"
    /\ IF ext.sslCredentials
       THEN pc' = "secure:NewAuthenticationContext" /\ UNCHANGED <<retErr, serving>>
       ELSE Return("ssl credentials")
    /\ UNCHANGED <<world, setup, authContext, grpcServer, httpServer, listeners,
                   demux, rpc, oauth2Call>>

\* The construction's error is logged and startup goes on with the Context returned.
Secure_NewAuthenticationContext_IgnoreErr ==
    /\ pc = "secure:NewAuthenticationContext"
    /\ setup' = NewAuthenticationContext(sm, fs, ext, "oauth2Provider", "oauth2ResourceServer",
                                         "metadataProvider", "infoProvider", options)
    /\ authContext' = setup'.ctx
    /\ pc' = "secure:newGRPCServer"
    /\ UNCHANGED <<world, retErr, serving, grpcServer, httpServer, listeners, demux, rpc,
                   oauth2Call>>

\* authContext, err := auth.NewAuthenticationContext(...); if err != nil { return err }
Secure_NewAuthenticationContext ==
    /\ pc = "secure:NewAuthenticationContext"
    /\ setup' = NewAuthenticationContext(sm, fs, ext, "oauth2Provider", "oauth2ResourceServer",
                                         "metadataProvider", "infoProvider", options)
    /\ IF setup'.err # "nil"
       THEN Return(setup'.err) /\ UNCHANGED authContext
       ELSE /\ authContext' = setup'.ctx
            /\ pc' = "secure:newGRPCServer"
            /\ UNCHANGED <<retErr, serving>>
    /\ UNCHANGED <<world, grpcServer, httpServer, listeners, demux, rpc, oauth2Call>>

Secure_newGRPCServer ==
    /\ pc = "secure:newGRPCServer"
    /\ grpcServer' = newGRPCServer(cfg, authContext, "credentials.NewServerTLSFromCert(cert)")
    /\ pc' = "secure:newHTTPServer"
    /\ UNCHANGED <<world, setup, authContext, httpServer, listeners, serving, retErr,
                   demux, rpc, oauth2Call>>

Secure_newHTTPServer ==
    /\ pc = "secure:newHTTPServer"
    /\ LET r == newHTTPServer(cfg, authContext, ext.registerGateway)
       IN  IF r.err # "nil"
           THEN Return(r.err) /\ UNCHANGED httpServer
           ELSE /\ httpServer' = r.mux
                /\ pc' = "secure:net.Listen"
                /\ UNCHANGED <<retErr, serving>>
    /\ UNCHANGED <<world, setup, authContext, grpcServer, listeners, demux, rpc, oauth2Call>>

\* conn, err := net.Listen("tcp", cfg.GetHostAddress()); if err != nil { panic(err) }
Secure_Listen ==
    /\ pc = "secure:net.Listen"
    /\ IF ext.listen
       THEN listeners' = {"cfg.GetHostAddress()"} /\ pc' = "secure:srv.Serve"
       ELSE listeners' = listeners /\ pc' = "panicked"
    /\ UNCHANGED <<world, setup, authContext, grpcServer, httpServer, serving, retErr,
                   demux, rpc, oauth2Call>>

\* srv.Serve(tls.NewListener(conn, srv.TLSConfig)) with Handler grpcHandlerFunc(...)
Secure_Serve ==
    /\ pc = "secure:srv.Serve"
    /\ serving' = {"tls"}
    /\ pc' = "serving"
    /\ UNCHANGED <<world, setup, authContext, grpcServer, httpServer, listeners, retErr,
                   demux, rpc, oauth2Call>>

Insecure_newGRPCServer ==
    /\ pc = "insecure:newGRPCServer"
    /\ grpcServer' = newGRPCServer(cfg, ZeroContext, "nil")
    /\ pc' = "insecure:net.Listen"
    /\ UNCHANGED <<world, setup, authContext, httpServer, listeners, serving, retErr,
                   demux, rpc, oauth2Call>>

Insecure_Listen ==
    /\ pc = "insecure:net.Listen"
    /\ IF ext.listen
       THEN /\ listeners' = {"cfg.GetGrpcHostAddress()"}
            /\ pc' = "insecure:go grpcServer.Serve"
            /\ UNCHANGED <<retErr, serving>>
       ELSE Return("failed to listen on GRPC port") /\ UNCHANGED listeners
    /\ UNCHANGED <<world, setup, authContext, grpcServer, httpServer, demux, rpc, oauth2Call>>

\* go func() { grpcServer.Serve(lis) }()
Insecure_GoServe ==
    /\ pc = "insecure:go grpcServer.Serve"
    /\ serving' = {"grpc"}
    /\ pc' = "insecure:newHTTPServer"
    /\ UNCHANGED <<world, setup, authContext, grpcServer, httpServer, listeners, retErr,
                   demux, rpc, oauth2Call>>

Insecure_newHTTPServer ==
    /\ pc = "insecure:newHTTPServer"
    /\ LET r == newHTTPServer(cfg, ZeroContext, ext.registerGateway)
       IN  IF r.err # "nil"
           THEN Return(r.err) /\ UNCHANGED httpServer
           ELSE /\ httpServer' = r.mux
                /\ pc' = "insecure:http.ListenAndServe"
                /\ UNCHANGED <<retErr, serving>>
    /\ UNCHANGED <<world, setup, authContext, grpcServer, listeners, demux, rpc, oauth2Call>>

Insecure_ListenAndServe ==
    /\ pc = "insecure:http.ListenAndServe"
    /\ listeners' = listeners \cup {"cfg.GetHostAddress()"}
    /\ serving' = serving \cup {"http"}
    /\ pc' = "serving"
    /\ UNCHANGED <<world, setup, authContext, grpcServer, httpServer, retErr, demux, rpc,
                   oauth2Call>>

Startup ==
    \/ RunE
    \/ Secure_GetSslCredentials
    \/ Secure_NewAuthenticationContext
    \/ Secure_newGRPCServer
    \/ Secure_newHTTPServer
    \/ Secure_Listen
    \/ Secure_Serve
    \/ Insecure_newGRPCServer
    \/ Insecure_Listen
    \/ Insecure_GoServe
    \/ Insecure_newHTTPServer
    \/ Insecure_ListenAndServe

-----------------------------------------------------------------------------
(* serve.go: grpcHandlerFunc *)

\* http.Header.Get: the first value of the header, "" when there is none.
HeaderGet(values) == IF values = <<>> THEN "" ELSE values[1]

\* The check without the protocol version.
grpcHandlerFunc_AnyProto(r) ==
    IF Contains(HeaderGet(r.ContentType), "application/grpc")
    THEN "grpcServer" ELSE "otherHandler"

\* Which handler's ServeHTTP the returned http.Handler calls for request r.
grpcHandlerFunc(r) ==
    IF r.ProtoMajor = 2 /\ Contains(HeaderGet(r.ContentType), "application/grpc")
    THEN "grpcServer" ELSE "otherHandler"

\* Content-Type header values of inbound requests.
ContentTypeHeaders ==
    {<<>>, <<"application/grpc">>, <<"application/grpc+proto">>, <<"application/json">>,
     <<"application/json", "application/grpc">>, <<"APPLICATION/GRPC">>,
     <<"application/grp">>, <<"text/x-application/grpc-web">>}

Requests == [ProtoMajor : {1, 2}, ContentType : ContentTypeHeaders]

-----------------------------------------------------------------------------
(* auth_context.go: authServiceWrapper.AuthFuncOverride, and the interceptors *)

anonymousMethodNames ==
    {"/flyteidl.service.AuthService/OAuth2Metadata", "/flyteidl.service.AuthService/FlyteClient"}

\* A call context: the bearer credential it carries and the identity resolved for it.
CallContext(cred) == [cred |-> cred, identity |-> ""]

Credentials == {"none", "invalid", "expired", "valid"}

\* The function GetAuthenticationInterceptor(authContext) returns, applied to ctx:
\* the set of outcomes [ctx, err].  A valid, unexpired credential is allowed and its
\* identity put in the context; any other is rejected as unauthenticated.  Built
\* from a nil authContext it panics as soon as it uses the context, which it may or
\* may not do before it rejects a call that carries no credential.
authInterceptor(authContextIsNil, ctx) ==
    IF authContextIsNil
    THEN {[ctx |-> ctx, err |-> "panic"]}
             \cup (IF ctx.cred = "none" THEN {[ctx |-> ctx, err |-> "Unauthenticated"]} ELSE {})
    ELSE IF ctx.cred = "valid"
         THEN {[ctx |-> [ctx EXCEPT !.identity = "user"], err |-> "OK"]}
         ELSE {[ctx |-> ctx, err |-> "Unauthenticated"]}

\* Anonymous access for every name that starts like an anonymous method.
AuthFuncOverride_PrefixMatch(ctx, fullMethodName) ==
    IF \E name \in anonymousMethodNames :
           HasPrefix(fullMethodName, name) \/ HasPrefix(name, fullMethodName)
    THEN {[ctx |-> ctx, err |-> "OK", interceptorRan |-> FALSE]}
    ELSE {[ctx |-> o.ctx, err |-> o.err, interceptorRan |-> TRUE] :
              o \in authInterceptor(FALSE, ctx)}

\* No anonymous access: the interceptor runs for every method.
AuthFuncOverride_NoAnonymous(ctx, fullMethodName) ==
    {[ctx |-> o.ctx, err |-> o.err, interceptorRan |-> TRUE] :
         o \in authInterceptor(FALSE, ctx)}

\* The outcomes [ctx, err, interceptorRan] of s.AuthFuncOverride(ctx, fullMethodName);
\* s.authInterceptor was built from the Context under construction.
AuthFuncOverride(ctx, fullMethodName) ==
    IF fullMethodName \in anonymousMethodNames
    THEN {[ctx |-> ctx, err |-> "OK", interceptorRan |-> FALSE]}
    ELSE {[ctx |-> o.ctx, err |-> o.err, interceptorRan |-> TRUE] :
              o \in authInterceptor(FALSE, ctx)}

\* grpcauth.UnaryServerInterceptor(authFunc): a service that implements
\* AuthFuncOverride decides for itself, any other gets authFunc.
UnaryServerInterceptor(srv, service, fullMethodName, ctx) ==
    IF service = "AuthService"
    THEN AuthFuncOverride(ctx, fullMethodName)
    ELSE {[ctx |-> o.ctx, err |-> o.err, interceptorRan |-> TRUE] :
              o \in authInterceptor(srv.authContextIsNil, ctx)}

\* The unary calls a client may send: the service that answers and the full method name.
UnaryCalls ==
    {[service |-> "AdminService", method |-> "/flyteidl.service.AdminService/CreateTask"]}
    \cup {[service |-> "AuthService", method |-> m] :
             m \in {"/flyteidl.service.AuthService/OAuth2Metadata",
                    "/flyteidl.service.AuthService/FlyteClient",
                    "/flyteidl.service.AuthService/UserInfo",
                    "/flyteidl.service.AuthService/OAuth2MetadataV2",
                    "/flyteidl.service.AuthService/OAuth2",
                    "/flyteidl.service.authservice/oauth2metadata"}}

-----------------------------------------------------------------------------
(* Serving requests *)

Running == pc \notin {"returned", "panicked"}

\* A unary call enters the interceptor chain of the gRPC server.
StartRpc(call, cred) ==
    [pc |-> "enter", service |-> call.service, method |-> call.method,
     inCtx |-> CallContext(cred), ctx |-> CallContext(cred), i |-> 1,
     started |-> FALSE, authRan |-> FALSE, authFuncRan |-> FALSE, authErr |-> "none",
     handlerRan |-> FALSE, handlerIdentity |-> "", err |-> "none", observed |-> "none"]

\* The TLS listener's handler serves one request: grpcHandlerFunc picks the gRPC
\* server, which takes the call through its chain, or the HTTP mux.
HandleRequest ==
    /\ Running
    /\ "tls" \in serving
    /\ rpc.pc = "idle"
    /\ \E r \in Requests :
          LET to == grpcHandlerFunc(r)
          IN  /\ demux' = [ProtoMajor |-> r.ProtoMajor, ContentType |-> r.ContentType,
                           servedBy |-> to, previous |-> demux.servedBy]
              /\ IF to = "grpcServer"
                 THEN \E call \in UnaryCalls, cred \in Credentials :
                         /\ call.service \in grpcServer.services
                         /\ rpc' = StartRpc(call, cred)
                 ELSE rpc' = rpc
    /\ UNCHANGED <<world, server, setup, oauth2Call>>

\* A unary call reaches the gRPC server on its own port (insecure serving).
UnaryCall ==
    /\ Running
    /\ "grpc" \in serving
    /\ rpc.pc = "idle"
    /\ \E call \in UnaryCalls, cred \in Credentials :
          /\ call.service \in grpcServer.services
          /\ rpc' = StartRpc(call, cred)
    /\ UNCHANGED <<world, server, setup, demux, oauth2Call>>

\* The call goes on to the next interceptor, or to the handler after the last one.
Proceed(r) ==
    IF r.i = Len(grpcServer.chain) THEN [r EXCEPT !.pc = "handler"] ELSE [r EXCEPT !.i = r.i + 1]

\* The interceptor at position rpc.i runs up to its call of the next handler.
RpcEnter ==
    /\ Running
    /\ rpc.pc = "enter"
    /\ LET interceptor == grpcServer.chain[rpc.i]
       IN  IF interceptor = "grpcauth.UnaryServerInterceptor"
           THEN \E o \in UnaryServerInterceptor(grpcServer, rpc.service, rpc.method, rpc.ctx) :
                   LET r == [rpc EXCEPT !.authRan = TRUE, !.authFuncRan = o.interceptorRan,
                                        !.authErr = o.err, !.ctx = o.ctx]
                   IN  IF o.err = "panic"
                       THEN /\ rpc' = [r EXCEPT !.pc = "panicked"]
                            /\ pc' = "panicked"
                            /\ serving' = {}
                       ELSE /\ rpc' = IF o.err = "OK" THEN Proceed(r)
                                      ELSE [r EXCEPT !.pc = "exit", !.i = r.i - 1, !.err = o.err]
                            /\ UNCHANGED <<pc, serving>>
           ELSE /\ rpc' = Proceed(IF interceptor = "grpc_prometheus.UnaryServerInterceptor"
                                  THEN [rpc EXCEPT !.started = TRUE] ELSE rpc)
                /\ UNCHANGED <<pc, serving>>
    /\ UNCHANGED <<world, setup, authContext, grpcServer, httpServer, listeners, retErr,
                   demux, oauth2Call>>

\* The business handler runs with the context the chain handed down.
RpcHandler ==
    /\ Running
    /\ rpc.pc = "handler"
    /\ \E result \in {"OK", "Internal"} :
          rpc' = [rpc EXCEPT !.pc = "exit", !.i = Len(grpcServer.chain), !.handlerRan = TRUE,
                             !.handlerIdentity = rpc.ctx.identity, !.err = result]
    /\ UNCHANGED <<world, server, setup, demux, oauth2Call>>

\* The call returns through the interceptor at position rpc.i; the metrics
\* interceptor records the code it sees.
RpcExit ==
    /\ Running
    /\ rpc.pc = "exit"
    /\ rpc' = IF rpc.i = 0 THEN [rpc EXCEPT !.pc = "done"]
              ELSE IF grpcServer.chain[rpc.i] = "grpc_prometheus.UnaryServerInterceptor"
                   THEN [rpc EXCEPT !.i = rpc.i - 1, !.observed = rpc.err]
                   ELSE [rpc EXCEPT !.i = rpc.i - 1]
    /\ UNCHANGED <<world, server, setup, demux, oauth2Call>>

\* The response is sent; the server is ready for the next call.
RpcFinish ==
    /\ Running
    /\ rpc.pc = "done"
    /\ rpc' = NoRpc
    /\ UNCHANGED <<world, server, setup, demux, oauth2Call>>

-----------------------------------------------------------------------------
(* Specification Spec: the serve command, from RunE to serving requests *)

ServeStores ==
    {GoodSecretStore,
     [GoodSecretStore EXCEPT !.cookie_hash_key = Absent],
     [GoodSecretStore EXCEPT !.cookie_block_key = Present("not base64!")]}

Init ==
    /\ options = Options("", URL("https", "", "a.example", ""))
    /\ sm \in ServeStores
    /\ fs = NoFiles
    /\ ext \in {Outcome(oidc, TRUE, TRUE, ssl, reg, lis) :
                   oidc \in BOOLEAN, ssl \in BOOLEAN, reg \in BOOLEAN, lis \in BOOLEAN}
    /\ cfg \in {ServerConfig(secure, useAuth) : secure \in BOOLEAN, useAuth \in BOOLEAN}
    /\ setup = NoSetup
    /\ ServerIdle
    /\ RequestsIdle
    /\ PkgsIdle

Next ==
    \/ Startup
    \/ HandleRequest
    \/ UnaryCall
    \/ RpcEnter
    \/ RpcHandler
    \/ RpcExit
    \/ RpcFinish

Spec == Init /\ [][Next]_vars

-----------------------------------------------------------------------------
(* Claims about NewAuthenticationContext and GetOAuth2ClientConfig (SpecSetup) *)

HashKeySecret == sm[options.UserAuth.CookieHashKeySecretName]
BlockKeySecret == sm[options.UserAuth.CookieBlockKeySecretName]
OpenID == options.UserAuth.OpenID

\* C5: with the cookie hash key or the cookie block key missing from the secret
\* manager, NewAuthenticationContext returns an error with code
\* CONFIG_OPTION_FILE_READ_FAILED and the zero Context.
C5_MissingSecretIsReadFailure ==
    (setup.done /\ (~HashKeySecret.found \/ ~BlockKeySecret.found))
        => (setup.err = "CONFIG_OPTION_FILE_READ_FAILED" /\ setup.ctx = ZeroContext)

\* The hash key is there and the block key is not, and the construction has run.
C5_Witness ==
    /\ setup.done
    /\ HashKeySecret.found
    /\ ~BlockKeySecret.found
    /\ setup.err = "CONFIG_OPTION_FILE_READ_FAILED"

\* Every field the claim lists is set.
FullyConstructed(c) ==
    /\ c.oauth2Client.Addr # "nil"
    /\ c.oauth2Client.RedirectURL # ""
    /\ c.oidcProvider # "nil"
    /\ c.cookieManager # "nil"
    /\ c.oauth2ResourceServer # "nil"
    /\ c.options # "nil"
    /\ c.oauth2MetadataURL # "nil"
    /\ c.oidcMetadataURL # "nil"
    /\ c.httpClient # "nil"
    /\ c.AuthServiceImpl.authInterceptor # "nil"
    /\ c.AuthServiceImpl.OAuth2MetadataProvider # "nil"
    /\ c.AuthServiceImpl.OIdCUserInfoProvider # "nil"

\* Every step of the construction succeeds in this world.
AllStepsSucceed ==
    /\ HashKeySecret.found
    /\ BlockKeySecret.found
    /\ HashKeySecret.val \in WellFormedKeys
    /\ BlockKeySecret.val \in WellFormedKeys
    /\ ext.oidcDiscovery
    /\ ResolveClientSecret(OpenID, sm, fs).err = "nil"
    /\ ext.oauth2MetadataParse
    /\ ext.oidcMetadataParse

\* C6: whatever the outcomes of the steps, NewAuthenticationContext returns either
\* a nil error with a Context whose listed fields are all set (exactly when every
\* step succeeds), or a non-nil error with the zero Context.
C6_AllOrNothing ==
    setup.done =>
        \/ setup.err = "nil" /\ FullyConstructed(setup.ctx) /\ AllStepsSucceed
        \/ setup.err # "nil" /\ setup.ctx = ZeroContext /\ ~AllStepsSucceed

\* A construction that got as far as parsing the second metadata URL and failed there.
C6_Witness ==
    /\ setup.done
    /\ ext.oauth2MetadataParse
    /\ ~ext.oidcMetadataParse
    /\ Len(setup.calls) = 7
    /\ setup.ctx = ZeroContext

\* The secret GetOAuth2ClientConfig resolved in this world.
ResolvedSecret == ResolveClientSecret(OpenID, sm, fs).val

\* C9: the descriptor's ClientSecret is the resolved secret without its last
\* character when that character is a newline, and the resolved secret otherwise.
C9_TrimsOneTrailingNewline ==
    (setup.done /\ setup.err = "nil") =>
        LET s == ResolvedSecret
            n == Len(s)
            got == setup.ctx.oauth2Client.ClientSecret
        IN  IF n >= 1 /\ SubSeq(s, n, n) = "\n"
            THEN got = SubSeq(s, 1, n - 1)
            ELSE got = s

\* "s\n\n" was resolved and "s\n" is in the descriptor.
C9_Witness ==
    /\ setup.done
    /\ setup.err = "nil"
    /\ ResolvedSecret = "s\n\n"
    /\ setup.ctx.oauth2Client.ClientSecret = "s\n"

\* The construction reached the client-secret step (four calls come before it).
ReachedClientSecret == setup.done /\ Len(setup.calls) >= 5

\* C10: the client secret comes from the secret accessor unless the deprecated
\* client-secret-file option is set; when it is set the secret is read from the
\* file that option names and the accessor is not asked for it; when the chosen
\* source fails the construction fails with an empty descriptor.
C10_SecretSource ==
    ReachedClientSecret =>
        LET file == OpenID.DeprecatedClientSecretFile
            name == OpenID.ClientSecretName
            source == IF file # "" THEN fs[file] ELSE sm[name]
            asked == {setup.calls[i] : i \in 1..Len(setup.calls)}
        IN  /\ file # "" => (Call("ioutil.ReadFile", file) \in asked
                             /\ Call("sm.Get", name) \notin asked)
            /\ file = "" => Call("sm.Get", name) \in asked
            /\ ~source.found => (setup.err # "nil" /\ setup.ctx.oauth2Client = NilConfig)
            /\ (source.found /\ setup.err = "nil")
                   => setup.ctx.oauth2Client.ClientSecret = TrimSuffix(source.val, "\n")

-----------------------------------------------------------------------------
(* Claims about OAuth2ClientConfig (SpecRedirect) *)

DefaultDescriptor == authContext.oauth2Client

\* What the claim says of one call: with base = {scheme}://{host} of the request,
\* the default descriptor itself when the default redirect URL starts with base/,
\* else a descriptor whose redirect URL is base/callback.
RedirectResolved(requestUrl, result) ==
    LET base == requestUrl.Scheme \o "://" \o requestUrl.Host
    IN  IF HasPrefix(DefaultDescriptor.RedirectURL, base \o "/")
        THEN result = DefaultDescriptor
        ELSE result.RedirectURL = base \o "/callback"

\* C3 as stated: the resolution holds for every non-nil request URL.
C3_EveryRequestURL ==
    (oauth2Call.done /\ ~oauth2Call.requestUrl.Nil)
        => RedirectResolved(oauth2Call.requestUrl, oauth2Call.result)

\* C3, amended: the resolution holds for every non-nil request URL that has a
\* scheme and no userinfo.
C3_RequestURLWithSchemeNoUser ==
    (/\ oauth2Call.done
     /\ ~oauth2Call.requestUrl.Nil
     /\ oauth2Call.requestUrl.Scheme # ""
     /\ oauth2Call.requestUrl.User = "")
        => RedirectResolved(oauth2Call.requestUrl, oauth2Call.result)

\* Default https://a.example/callback, request on https://b.example: a new
\* descriptor with redirect URL https://b.example/callback.
C3_Witness ==
    /\ oauth2Call.done
    /\ DefaultDescriptor.RedirectURL = "https://a.example/callback"
    /\ oauth2Call.requestUrl = URL("https", "", "b.example", "/login")
    /\ oauth2Call.result.Addr = "new"
    /\ oauth2Call.result.RedirectURL = "https://b.example/callback"

-----------------------------------------------------------------------------
(* Claims about AuthFuncOverride (Spec) *)

\* The authentication step of the call in flight was decided by AuthFuncOverride.
OverrideDecided == rpc.authRan /\ rpc.service = "AuthService"

IsAnonymousMethod(name) ==
    \/ name = "/flyteidl.service.AuthService/OAuth2Metadata"
    \/ name = "/flyteidl.service.AuthService/FlyteClient"

\* C1: for the two anonymous methods AuthFuncOverride returns the incoming context
\* unchanged and no error, whatever credential the call carries, and does not
\* invoke the authentication interceptor.
C1_AnonymousMethodsAllowed ==
    (OverrideDecided /\ IsAnonymousMethod(rpc.method))
        => (rpc.authErr = "OK" /\ rpc.ctx = rpc.inCtx /\ ~rpc.authFuncRan)

\* An anonymous method called with no credential reached its handler.
C1_Witness ==
    /\ OverrideDecided
    /\ rpc.method = "/flyteidl.service.AuthService/FlyteClient"
    /\ rpc.inCtx.cred = "none"
    /\ rpc.handlerRan

\* C2: for every other method name AuthFuncOverride runs the authentication
\* interceptor and returns its context and error as they are; a call with no or an
\* invalid credential is rejected as unauthenticated and never reaches the handler.
C2_OtherMethodsAuthenticated ==
    (OverrideDecided /\ ~IsAnonymousMethod(rpc.method))
        => /\ rpc.authFuncRan
           /\ [ctx |-> rpc.ctx, err |-> rpc.authErr] \in authInterceptor(FALSE, rpc.inCtx)
           /\ rpc.inCtx.cred \in {"none", "invalid"}
                  => (rpc.authErr = "Unauthenticated" /\ ~rpc.handlerRan)

\* A name that only starts like an anonymous method, called with no credential,
\* was rejected.
C2_Witness ==
    /\ OverrideDecided
    /\ rpc.method = "/flyteidl.service.AuthService/OAuth2MetadataV2"
    /\ rpc.inCtx.cred = "none"
    /\ rpc.pc = "done"
    /\ rpc.err = "Unauthenticated"

-----------------------------------------------------------------------------
(* Claims about grpcHandlerFunc (Spec) *)

\* The request's Content-Type: the first value of the header.
RequestContentType == IF demux.ContentType = <<>> THEN "" ELSE demux.ContentType[1]

\* s holds application/grpc somewhere: s = before \o "application/grpc" \o after.
MentionsGrpc(s) ==
    \E i \in 0..Len(s), j \in 1..(Len(s) + 1) :
        SubSeq(s, 1, i) \o "application/grpc" \o SubSeq(s, j, Len(s)) = s

\* C4 as stated: a request goes to the gRPC server exactly when it is HTTP/2 and its
\* Content-Type is application/grpc, and to the HTTP mux otherwise.
C4_ContentTypeIsGrpc ==
    demux.servedBy # "nil" =>
        /\ demux.servedBy \in {"grpcServer", "otherHandler"}
        /\ demux.servedBy = "grpcServer"
               <=> (demux.ProtoMajor = 2 /\ RequestContentType = "application/grpc")

\* C4, amended: a request goes to the gRPC server exactly when it is HTTP/2 and its
\* Content-Type contains application/grpc, and to the HTTP mux otherwise, whoever
\* served the request before it.
C4_ContentTypeContainsGrpc ==
    demux.servedBy # "nil" =>
        /\ demux.servedBy \in {"grpcServer", "otherHandler"}
        /\ demux.servedBy = "grpcServer"
               <=> (demux.ProtoMajor = 2 /\ MentionsGrpc(RequestContentType))

\* An HTTP/2 application/grpc+proto request went to the gRPC server right after a
\* request that went to the mux.
C4_Witness ==
    /\ demux.ProtoMajor = 2
    /\ demux.ContentType = <<"application/grpc+proto">>
    /\ demux.servedBy = "grpcServer"
    /\ demux.previous = "otherHandler"

-----------------------------------------------------------------------------
(* Claims about the interceptor chain (Spec) *)

\* C7: with authentication enabled the authentication interceptor has run, and
\* allowed the call, before the business handler runs, and has run before the
\* metrics interceptor records the call's code; a call it rejects never reaches the
\* handler, and the code recorded for it is the rejection.
C7_AuthBeforeHandlerAndMetrics ==
    cfg.UseAuth =>
        /\ rpc.handlerRan => (rpc.authRan /\ rpc.authErr = "OK")
        /\ rpc.observed # "none" => rpc.authRan
        /\ rpc.authErr = "Unauthenticated"
               => /\ ~rpc.handlerRan
                  /\ rpc.pc = "done" => rpc.observed = "Unauthenticated"

\* A rejected call is over: the handler did not run and the metrics interceptor,
\* which had counted the call as started, recorded Unauthenticated.
C7_Witness ==
    /\ cfg.UseAuth
    /\ rpc.pc = "done"
    /\ rpc.started
    /\ rpc.authErr = "Unauthenticated"
    /\ ~rpc.handlerRan
    /\ rpc.observed = "Unauthenticated"

-----------------------------------------------------------------------------
(* Claims about serveGatewaySecure (Spec) *)

\* C8: on the secure path, once the construction of the Authentication Context has
\* failed, serveGatewaySecure has returned that error, and there is no gRPC server,
\* no HTTP mux, no listener, and no request or call has been served.
C8_SetupFailureAbortsStartup ==
    (cfg.Secure /\ setup.done /\ setup.err # "nil")
        => /\ pc = "returned"
           /\ retErr = setup.err
           /\ authContext = ZeroContext
           /\ ~grpcServer.built
           /\ ~httpServer.built
           /\ listeners = {}
           /\ serving = {}
           /\ demux = NoDemux
           /\ rpc = NoRpc

\* OIDC discovery failed after the cookie manager was built, and startup ended.
C8_Witness ==
    /\ cfg.Secure
    /\ setup.done
    /\ ~ext.oidcDiscovery
    /\ Len(setup.calls) = 4
    /\ retErr = "AUTH_CONTEXT_SETUP_FAILED"
    /\ pc = "returned"

-----------------------------------------------------------------------------
(* The packages beside the gateway start from a settled gateway world *)

GatewayIdle ==
    /\ options = Options("", URL("https", "", "a.example", ""))
    /\ sm = GoodSecretStore
    /\ fs = NoFiles
    /\ ext = Outcome(TRUE, TRUE, TRUE, TRUE, TRUE, TRUE)
    /\ cfg = ServerConfig(TRUE, TRUE)
    /\ setup = NoSetup
    /\ ServerIdle
    /\ RequestsIdle

InitPkgs == GatewayIdle /\ PkgsIdle

-----------------------------------------------------------------------------
(* The workflow-executor registry (flyteK8sWorkflowExecutorRegistry) *)

\* The executors handed to the registry, by ID(): the two of the tests and one more.
testExecID == "foo"
defaultExecID == "default"
Executors == {testExecID, defaultExecID, "bar"}

\* Register(executor): the explicitly registered executor, replacing any earlier one.
Register(r, executor) == [r EXCEPT !.executor = executor]

\* RegisterDefault(executor): the fallback executor.
RegisterDefault(r, executor) == [r EXCEPT !.defaultExecutor = executor]

\* A registry that prefers the default executor once one is set.
GetExecutor_DefaultFirst(r) ==
    IF r.defaultExecutor = "nil" THEN r.executor ELSE r.defaultExecutor

\* GetExecutor(): the registered executor, the default one when none was registered.
GetExecutor(r) ==
    IF r.executor = "nil" THEN r.defaultExecutor ELSE r.executor

RegisterCall ==
    /\ Len(registryCalls) < MaxRegistryCalls
    /\ \E executor \in Executors :
          /\ registry' = Register(registry, executor)
          /\ registryCalls' = Append(registryCalls, [op |-> "Register", executor |-> executor])
    /\ UNCHANGED <<options, sm, fs, ext, cfg, server, setup, demux, rpc, oauth2Call, dbError, prepare, lp, forks>>

RegisterDefaultCall ==
    /\ Len(registryCalls) < MaxRegistryCalls
    /\ \E executor \in Executors :
          /\ registry' = RegisterDefault(registry, executor)
          /\ registryCalls' = Append(registryCalls, [op |-> "RegisterDefault", executor |-> executor])
    /\ UNCHANGED <<options, sm, fs, ext, cfg, server, setup, demux, rpc, oauth2Call, dbError, prepare, lp, forks>>

NextRegistry == RegisterCall \/ RegisterDefaultCall

SpecRegistry == InitPkgs /\ [][NextRegistry]_vars

-----------------------------------------------------------------------------
(* C11 *)

IsRegister(call) == call.op = "Register"
IsRegisterDefault(call) == call.op = "RegisterDefault"

\* The executor of the last call of a non-empty list of calls.
LastExecutor(calls) == calls[Len(calls)].executor

-----------------------------------------------------------------------------
(* The Postgres error transformer (postgresErrorTransformer.ToFlyteAdminError) *)

\* errors.New(message): an error that is not a *pgconn.PgError.
PlainError(message) == [isPg |-> FALSE, Code |-> "", Message |-> message]

\* &pgconn.PgError{Code: code, Message: message}
PgError(code, message) == [isPg |-> TRUE, Code |-> code, Message |-> message]

\* flyteAdminError.NewFlyteAdminErrorf(code, message)
NewFlyteAdminError(code, message) == [kind |-> "FlyteAdminError", code |-> code, message |-> message]

\* SQLSTATE of a unique-constraint violation.
uniqueConstraintViolationCode == "23505"

\* The error codes and messages the transformer is handed.
PgCodes == {uniqueConstraintViolationCode, "foo", "23503", "42P01", "2350", ""}
ErrorMessages == {"foo", "message"} \cup StringsUpTo({"m", "e"}, 3)
DatabaseErrors ==
    {PlainError(m) : m \in ErrorMessages} \cup {PgError(c, m) : c \in PgCodes, m \in ErrorMessages}

\* A transformer that knows no Postgres code.
ToFlyteAdminError_NoKnownCode(err) ==
    IF ~err.isPg
    THEN NewFlyteAdminError("Internal", "unexpected error type for: " \o err.Message)
    ELSE NewFlyteAdminError("Unknown", "failed database operation with " \o err.Message)

ToFlyteAdminError(err) ==
    IF ~err.isPg
    THEN NewFlyteAdminError("Internal", "unexpected error type for: " \o err.Message)
    ELSE IF err.Code = uniqueConstraintViolationCode
         THEN NewFlyteAdminError("AlreadyExists",
                                 "value with matching already exists (" \o err.Message \o ")")
         ELSE NewFlyteAdminError("Unknown", "failed database operation with " \o err.Message)

ToFlyteAdminErrorCall ==
    /\ \E err \in DatabaseErrors :
          dbError' = [done |-> TRUE, err |-> err, result |-> ToFlyteAdminError(err)]
    /\ UNCHANGED <<options, sm, fs, ext, cfg, server, setup, demux, rpc, oauth2Call,
                   registry, registryCalls, prepare, lp, forks>>

NextErrors == ToFlyteAdminErrorCall

SpecErrors == InitPkgs /\ [][NextErrors]_vars

-----------------------------------------------------------------------------
(* C12 *)

-----------------------------------------------------------------------------
(* C13 *)

\* C13: with authentication enabled, a server is serving only after an
\* Authentication Context was constructed without error, and neither the gRPC
\* server's authentication interceptor nor the mux's login and callback handlers
\* are built from a nil context, on the secure and on the insecure path.
C13_AuthContextBeforeServing ==
    cfg.UseAuth =>
        /\ serving # {} => (setup.done /\ setup.err = "nil")
        /\ grpcServer.built => ~grpcServer.authContextIsNil
        /\ httpServer.built => ~httpServer.authContextIsNil

-----------------------------------------------------------------------------
(* C14 *)

\* The step of the construction a recorded call belongs to.
StepOf(call) ==
    IF call = Call("sm.Get", options.UserAuth.CookieHashKeySecretName) THEN 1
    ELSE IF call = Call("sm.Get", options.UserAuth.CookieBlockKeySecretName) THEN 2
    ELSE IF call = "NewCookieManager" THEN 3
    ELSE IF HasPrefix(call, "oidc.NewProvider(") THEN 4
    ELSE IF call \in {Call("sm.Get", OpenID.ClientSecretName),
                      Call("ioutil.ReadFile", OpenID.ClientSecretName),
                      Call("ioutil.ReadFile", OpenID.DeprecatedClientSecretFile)} THEN 5
    ELSE IF HasPrefix(call, "url.Parse(") THEN 6
    ELSE 7

\* The first step that fails in this world, 0 when none does.
FirstFailingStep ==
    IF ~HashKeySecret.found THEN 1
    ELSE IF ~BlockKeySecret.found THEN 2
    ELSE IF NewCookieManager(HashKeySecret.val, BlockKeySecret.val).err # "nil" THEN 3
    ELSE IF ~ext.oidcDiscovery THEN 4
    ELSE IF ResolveClientSecret(OpenID, sm, fs).err # "nil" THEN 5
    ELSE IF ~ext.oauth2MetadataParse \/ ~ext.oidcMetadataParse THEN 6
    ELSE 0

\* C14: the construction takes its steps in the order hash key, block key, cookie
\* manager, OIDC discovery, client secret, metadata URLs, skipping none, and stops
\* at the first step that fails: no step after the failing one is taken.
C14_StepsInOrderUntilFirstFailure ==
    setup.done =>
        LET steps == [i \in DOMAIN setup.calls |-> StepOf(setup.calls[i])]
            n == Len(steps)
        IN  /\ n >= 1 /\ steps[1] = 1
            /\ \A i \in 1..(n - 1) : steps[i + 1] \in {steps[i], steps[i] + 1}
            /\ \A i \in 1..(n - 1) : steps[i + 1] = steps[i] => steps[i] = 6
            /\ FirstFailingStep # 0 => (steps[n] = FirstFailingStep /\ setup.err # "nil")
            /\ FirstFailingStep = 0 => (steps[n] = 7 /\ setup.err = "nil")

\* Discovery failed with both cookie keys in order: the client secret was not asked for.
C14_Witness ==
    /\ setup.done
    /\ FirstFailingStep = 4
    /\ Len(setup.calls) = 4
    /\ StepOf(setup.calls[4]) = 4
    /\ setup.err # "nil"

-----------------------------------------------------------------------------
(* Context.OAuth2ClientConfig called from several handlers at once *)

\* The condition of the if: no request URL, or the default redirect URL starts with
\* the request's root.
MatchesDefault(c, requestUrl) ==
    \/ requestUrl.Nil
    \/ HasPrefix(c.oauth2Client.RedirectURL,
                 URLString(ResolveReference(requestUrl, rootRelativeUrl)))

\* A call that rewrites the default descriptor's redirect URL instead of forking.
OAuth2ClientConfigReturn_InPlace(c, requestUrl, useDefault) ==
    IF useDefault
    THEN [result |-> c.oauth2Client, oauth2Client |-> c.oauth2Client]
    ELSE LET rewritten ==
                 [c.oauth2Client EXCEPT
                     !.RedirectURL = URLString(ResolveReference(requestUrl, callbackRelativeUrl))]
         IN  [result |-> rewritten, oauth2Client |-> rewritten]

\* The return statements: the value returned and the default descriptor as the call
\* leaves it.
OAuth2ClientConfigReturn(c, requestUrl, useDefault) ==
    IF useDefault
    THEN [result |-> c.oauth2Client, oauth2Client |-> c.oauth2Client]
    ELSE [result |-> [Addr |-> "new",
                      RedirectURL |-> URLString(ResolveReference(requestUrl, callbackRelativeUrl)),
                      ClientID |-> c.oauth2Client.ClientID,
                      ClientSecret |-> c.oauth2Client.ClientSecret,
                      Scopes |-> c.oauth2Client.Scopes,
                      Endpoint |-> c.oauth2Client.Endpoint],
          oauth2Client |-> c.oauth2Client]

\* The request URLs of the concurrent handlers: the public host, another host, the
\* public host on another scheme and port, a path-only URL, and no URL.
ConcurrentRequestURLs ==
    {URL("https", "", "a.example", "/login"), URL("https", "", "b.example", "/login"),
     URL("http", "", "a.example:8088", "/console/x"), URL("", "", "", "/login"), NilURL}

\* A goroutine enters OAuth2ClientConfig and evaluates the condition.
Fork_Check(g) ==
    /\ forks[g].pc = "idle"
    /\ \E requestUrl \in ConcurrentRequestURLs :
          forks' = [forks EXCEPT ![g] = [pc |-> "checked", requestUrl |-> requestUrl,
                                         useDefault |-> MatchesDefault(authContext, requestUrl),
                                         result |-> NilConfig]]
    /\ UNCHANGED <<options, sm, fs, ext, cfg, server, setup, demux, rpc, oauth2Call,
                   registry, registryCalls, dbError, prepare, lp>>

\* The goroutine returns the default descriptor or a new one.
Fork_Return(g) ==
    /\ forks[g].pc = "checked"
    /\ LET r == OAuth2ClientConfigReturn(authContext, forks[g].requestUrl, forks[g].useDefault)
       IN  /\ forks' = [forks EXCEPT ![g].pc = "done", ![g].result = r.result]
           /\ authContext' = [authContext EXCEPT !.oauth2Client = r.oauth2Client]
    /\ UNCHANGED <<options, sm, fs, ext, cfg, pc, grpcServer, httpServer, listeners, serving,
                   retErr, setup, demux, rpc, oauth2Call, registry, registryCalls, dbError, prepare, lp>>

NextConcurrent == \E g \in Goroutines : Fork_Check(g) \/ Fork_Return(g)

SpecConcurrent == InitRedirect /\ [][NextConcurrent]_vars

-----------------------------------------------------------------------------
(* C15 *)

\* The default descriptor as NewAuthenticationContext built it.
ConstructedDefault == setup.ctx.oauth2Client

\* C15: however the concurrent calls interleave, the default descriptor stays as it
\* was constructed; the result of each call is the one the call gives alone on the
\* constructed context for its own request URL; and a forked descriptor has the
\* default's client id, client secret, scopes and endpoints and the redirect URL
\* resolved from its own request URL.
C15_ConcurrentCallsAreIndependent ==
    /\ authContext.oauth2Client = ConstructedDefault
    /\ \A g \in Goroutines :
          forks[g].pc = "done" =>
              /\ forks[g].result = OAuth2ClientConfig(setup.ctx, forks[g].requestUrl)
              /\ forks[g].result.Addr = "new" =>
                    /\ forks[g].result.ClientID = ConstructedDefault.ClientID
                    /\ forks[g].result.ClientSecret = ConstructedDefault.ClientSecret
                    /\ forks[g].result.Scopes = ConstructedDefault.Scopes
                    /\ forks[g].result.Endpoint = ConstructedDefault.Endpoint
                    /\ forks[g].result.RedirectURL =
                           URLString(ResolveReference(forks[g].requestUrl, callbackRelativeUrl))
                    /\ forks[g].result.RedirectURL # ConstructedDefault.RedirectURL

\* Two calls have returned: one forked a descriptor, the other, made with a request
\* URL, got the default one.
C15_Witness ==
    \E g, h \in Goroutines :
        /\ g # h
        /\ forks[g].pc = "done" /\ forks[g].result.Addr = "new"
        /\ forks[h].pc = "done" /\ forks[h].result = ConstructedDefault
        /\ ~forks[h].requestUrl.Nil

-----------------------------------------------------------------------------
(* executions.PrepareFlyteWorkflow *)

\* A merge in which the values the workflow already has win over the overrides.
addMapValues_DefaultsWin(overrides, defaultValues) ==
    LET defaults == IF defaultValues.Nil THEN GoMap(FALSE, defaultValues.at) ELSE defaultValues
    IN  IF overrides.Nil
        THEN defaults
        ELSE GoMap(FALSE, [k \in MapKeys |-> IF defaults.at[k].found THEN defaults.at[k]
                                             ELSE overrides.at[k]])

\* addMapValues(overrides, defaultValues): the defaults with every override written
\* over them; an empty map for nil defaults.
addMapValues(overrides, defaultValues) ==
    LET defaults == IF defaultValues.Nil THEN GoMap(FALSE, defaultValues.at) ELSE defaultValues
    IN  IF overrides.Nil
        THEN defaults
        ELSE GoMap(FALSE, [k \in MapKeys |-> IF overrides.at[k].found THEN overrides.at[k]
                                             ELSE defaults.at[k]])

\* addPermissions(auth, roleNameKey, flyteWf): the workflow as it leaves it.
addPermissions(auth, roleNameKey, flyteWf) ==
    IF auth.Nil
    THEN flyteWf
    ELSE LET withRole ==
                 IF Len(auth.AssumableIamRole) > 0
                 THEN [flyteWf EXCEPT !.Annotations =
                          GoMap(FALSE, [@.at EXCEPT ![roleNameKey] = Present(auth.AssumableIamRole)])]
                 ELSE flyteWf
         IN  IF Len(auth.KubernetesServiceAccount) > 0
             THEN [withRole EXCEPT !.ServiceAccountName = auth.KubernetesServiceAccount]
             ELSE withRole

\* addExecutionOverrides with no plugin overrides and no task resources; uint32() of
\* the non-negative MaxParallelism values used here is the value itself.
addExecutionOverrides(workflowExecutionConfig, recoveryExecution, flyteWf) ==
    [flyteWf EXCEPT !.ExecutionConfig =
        [Set |-> TRUE,
         MaxParallelism |-> IF workflowExecutionConfig.Nil THEN 0
                            ELSE workflowExecutionConfig.MaxParallelism,
         RecoveryExecution |-> recoveryExecution]]

\* PrepareFlyteWorkflow(input, flyteWorkflow): [flyteWorkflow, err]
PrepareFlyteWorkflow(input, flyteWorkflow) ==
    IF input.ExecutionID = "nil"
    THEN [flyteWorkflow |-> flyteWorkflow,
          err |-> NewFlyteAdminError("Internal", "invalid execution id")]
    ELSE IF flyteWorkflow.Nil
    THEN [flyteWorkflow |-> flyteWorkflow,
          err |-> NewFlyteAdminError("Internal", "missing Flyte Workflow ")]
    ELSE LET w1 == [flyteWorkflow EXCEPT !.ExecutionID = input.ExecutionID,
                                         !.AcceptedAt = input.AcceptedAt]
             w2 == addPermissions(input.Auth, input.RoleNameKey, w1)
             w3 == [w2 EXCEPT !.Labels = addMapValues(input.Labels, w2.Labels)]
             w4 == [w3 EXCEPT !.Annotations = addMapValues(input.Annotations, w3.Annotations)]
             w5 == [w4 EXCEPT !.EventVersion = input.EventVersion]
             w6 == addExecutionOverrides(input.ExecutionConfig, input.RecoveryExecution, w5)
             w7 == IF input.RawOutputDataConfig # "nil"
                   THEN [w6 EXCEPT !.RawOutputDataConfig = input.RawOutputDataConfig]
                   ELSE w6
         IN  [flyteWorkflow |-> w7, err |-> NilError]

\* The maps, roles and workflows PrepareFlyteWorkflow is called with.
MapValues == {"a", "b"}
GoMaps ==
    {NilMap} \cup {GoMap(FALSE, at) : at \in [MapKeys -> {Absent} \cup {Present(v) : v \in MapValues}]}
LabelMaps == {NilMap, GoMap(FALSE, [k \in MapKeys |-> IF k = "team" THEN Present("a") ELSE Absent])}
AuthRoles ==
    {NilAuthRole}
        \cup {[Nil |-> FALSE, AssumableIamRole |-> role, KubernetesServiceAccount |-> ksa] :
                 role \in {"", "arn:aws:iam::role/r"}, ksa \in {"", "sa"}}
PrepareInputs ==
    {[ExecutionID |-> id, AcceptedAt |-> "now", Labels |-> labels, Annotations |-> annotations,
      ExecutionConfig |-> [Nil |-> FALSE, MaxParallelism |-> 5], Auth |-> auth,
      RecoveryExecution |-> "nil", EventVersion |-> 1, RoleNameKey |-> key,
      RawOutputDataConfig |-> "s3://raw"] :
        id \in {"nil", "exec"}, labels \in LabelMaps, annotations \in GoMaps, auth \in AuthRoles,
        key \in MapKeys}
FlyteWorkflows ==
    {NilFlyteWorkflow}
        \cup {[NilFlyteWorkflow EXCEPT !.Nil = FALSE, !.Labels = labels, !.Annotations = annotations] :
                 labels \in LabelMaps, annotations \in GoMaps}

\* One call of PrepareFlyteWorkflow.
PrepareFlyteWorkflowCall ==
    /\ ~prepare.done
    /\ \E input \in PrepareInputs, flyteWorkflow \in FlyteWorkflows :
          LET r == PrepareFlyteWorkflow(input, flyteWorkflow)
          IN  prepare' = [done |-> TRUE, input |-> input, before |-> flyteWorkflow,
                          flyteWorkflow |-> r.flyteWorkflow, err |-> r.err]
    /\ UNCHANGED <<options, sm, fs, ext, cfg, server, setup, demux, rpc, oauth2Call,
                   registry, registryCalls, dbError, lp, forks>>

NextPrepare == PrepareFlyteWorkflowCall

SpecPrepare == InitPkgs /\ [][NextPrepare]_vars

-----------------------------------------------------------------------------
(* C16 *)

\* The IAM role addPermissions writes: the Auth's assumable role, none for a nil Auth.
AssumableRole == IF prepare.input.Auth.Nil THEN "" ELSE prepare.input.Auth.AssumableIamRole

\* C16: after a successful PrepareFlyteWorkflow, a key present in the input
\* annotations has the input's value; otherwise the role-name key has the Auth's
\* assumable IAM role when that role is non-empty; otherwise the key keeps the
\* annotation the workflow had before the call, or stays absent.
C16_AnnotationPrecedence ==
    (prepare.done /\ prepare.err = NilError) =>
        \A k \in MapKeys :
            prepare.flyteWorkflow.Annotations.at[k] =
                IF prepare.input.Annotations.at[k].found
                THEN prepare.input.Annotations.at[k]
                ELSE IF k = prepare.input.RoleNameKey /\ AssumableRole # ""
                THEN Present(AssumableRole)
                ELSE prepare.before.Annotations.at[k]

\* An input annotation under the role-name key, on a workflow that already had one
\* there, with a non-empty IAM role: the input's value is the one that stays.
C16_Witness ==
    /\ prepare.done
    /\ prepare.err = NilError
    /\ AssumableRole # ""
    /\ prepare.input.Annotations.at[prepare.input.RoleNameKey] = Present("a")
    /\ prepare.before.Annotations.at[prepare.input.RoleNameKey] = Present("b")
    /\ prepare.flyteWorkflow.Annotations.at[prepare.input.RoleNameKey] = Present("a")

-----------------------------------------------------------------------------
(* validation.ValidateLaunchPlan: the expected inputs and the schedule *)

\* core.LiteralType, by name; only the first two are simple types.
SimpleTypes == {"DATETIME", "INTEGER"}
LiteralTypes == SimpleTypes \cup {"COLLECTION<DATETIME>"}

\* (*core.LiteralType).GetSimple(): SimpleType_NONE for a type that is not simple.
GetSimple(type) == IF type \in SimpleTypes THEN type ELSE "NONE"

\* validators.AreTypesCastable on the types above: a type casts to itself only.
AreTypesCastable(upstreamType, downstreamType) == upstreamType = downstreamType

\* &core.Variable{...}, &core.Parameter{...}, a literal of the given type.
Variable(type, description) == [found |-> TRUE, Type |-> type, Description |-> description]
Parameter(type, description, behavior) ==
    [found |-> TRUE, Var |-> [Type |-> type, Description |-> description], Behavior |-> behavior]
Literal(type) == [found |-> TRUE, Type |-> type]

\* (*core.Parameter).GetRequired(): the flag of a Parameter_Required, false otherwise.
GetRequired(parameter) == parameter.found /\ parameter.Behavior = "Required(true)"

\* The names a map has an entry for.
Keys(m) == {name \in InputNames : m[name].found}

InvalidArgument(message) == NewFlyteAdminError("InvalidArgument", message)

\* %d of a count below ten.
Itoa(n) == SubSeq("0123456789", n + 1, n + 1)

\* What the last loop builds: the default parameter, else a required copy of the
\* workflow variable unless the input is fixed.
ExpectedInputMap(workflowExpectedInputMap, fixedInputMap, defaultInputMap) ==
    [name \in InputNames |->
        IF ~workflowExpectedInputMap[name].found THEN NoParameter
        ELSE IF defaultInputMap[name].found THEN defaultInputMap[name]
        ELSE IF ~fixedInputMap[name].found
        THEN Parameter(workflowExpectedInputMap[name].Type,
                       workflowExpectedInputMap[name].Description, "Required(true)")
        ELSE NoParameter]

\* The loops over the default and the fixed inputs: the errors they can return, the
\* order of iteration deciding which one comes first.
DefaultInputErrors(workflowExpectedInputMap, defaultInputMap) ==
    {InvalidArgument("unexpected default_input " \o name) :
        name \in {n \in Keys(defaultInputMap) : ~workflowExpectedInputMap[n].found}}
    \cup
    {InvalidArgument("invalid default_input wrong type " \o name \o ", expected "
                     \o defaultInputMap[name].Var.Type \o ", got "
                     \o workflowExpectedInputMap[name].Type \o " instead") :
        name \in {n \in Keys(defaultInputMap) :
                     /\ workflowExpectedInputMap[n].found
                     /\ ~AreTypesCastable(defaultInputMap[n].Var.Type,
                                          workflowExpectedInputMap[n].Type)}}

FixedInputErrors(workflowExpectedInputMap, fixedInputMap) ==
    {InvalidArgument("unexpected fixed_input " \o name) :
        name \in {n \in Keys(fixedInputMap) : ~workflowExpectedInputMap[n].found}}
    \cup
    {InvalidArgument("invalid fixed_input wrong type " \o name \o ", expected "
                     \o workflowExpectedInputMap[name].Type \o ", got "
                     \o fixedInputMap[name].Type \o " instead") :
        name \in {n \in Keys(fixedInputMap) :
                     /\ workflowExpectedInputMap[n].found
                     /\ ~AreTypesCastable(fixedInputMap[n].Type, workflowExpectedInputMap[n].Type)}}

\* A fetch that lets a fixed value hide the launch plan's default.
checkAndFetchExpectedInputForLaunchPlan_FixedHidesDefault(workflowVariableMap, fixedInputs, defaultInputs) ==
    IF Keys(workflowVariableMap) = {}
    THEN IF Keys(defaultInputs) # {}
         THEN {[expectedInputs |-> NilParameterMap,
                err |-> InvalidArgument("invalid launch plan default inputs, expected none but found "
                                       \o Itoa(Cardinality(Keys(defaultInputs))))]}
         ELSE IF Keys(fixedInputs) # {}
         THEN {[expectedInputs |-> NilParameterMap,
                err |-> InvalidArgument("invalid launch plan fixed inputs, expected none but found "
                                       \o Itoa(Cardinality(Keys(fixedInputs))))]}
         ELSE {[expectedInputs |-> [Nil |-> FALSE, Parameters |-> NoParameters], err |-> NilError]}
    ELSE IF DefaultInputErrors(workflowVariableMap, defaultInputs) # {}
    THEN {[expectedInputs |-> NilParameterMap, err |-> e] :
             e \in DefaultInputErrors(workflowVariableMap, defaultInputs)}
    ELSE IF FixedInputErrors(workflowVariableMap, fixedInputs) # {}
    THEN {[expectedInputs |-> NilParameterMap, err |-> e] :
             e \in FixedInputErrors(workflowVariableMap, fixedInputs)}
    ELSE {[expectedInputs |->
              [Nil |-> FALSE,
               Parameters |-> [name \in InputNames |->
                                  IF fixedInputs[name].found THEN NoParameter
                                  ELSE ExpectedInputMap(workflowVariableMap, fixedInputs,
                                                        defaultInputs)[name]]],
           err |-> NilError]}

\* checkAndFetchExpectedInputForLaunchPlan: the [expectedInputs, err] it can return.
checkAndFetchExpectedInputForLaunchPlan(workflowVariableMap, fixedInputs, defaultInputs) ==
    IF Keys(workflowVariableMap) = {}
    THEN IF Keys(defaultInputs) # {}
         THEN {[expectedInputs |-> NilParameterMap,
                err |-> InvalidArgument("invalid launch plan default inputs, expected none but found "
                                       \o Itoa(Cardinality(Keys(defaultInputs))))]}
         ELSE IF Keys(fixedInputs) # {}
         THEN {[expectedInputs |-> NilParameterMap,
                err |-> InvalidArgument("invalid launch plan fixed inputs, expected none but found "
                                       \o Itoa(Cardinality(Keys(fixedInputs))))]}
         ELSE {[expectedInputs |-> [Nil |-> FALSE, Parameters |-> NoParameters], err |-> NilError]}
    ELSE IF DefaultInputErrors(workflowVariableMap, defaultInputs) # {}
    THEN {[expectedInputs |-> NilParameterMap, err |-> e] :
             e \in DefaultInputErrors(workflowVariableMap, defaultInputs)}
    ELSE IF FixedInputErrors(workflowVariableMap, fixedInputs) # {}
    THEN {[expectedInputs |-> NilParameterMap, err |-> e] :
             e \in FixedInputErrors(workflowVariableMap, fixedInputs)}
    ELSE {[expectedInputs |->
              [Nil |-> FALSE,
               Parameters |-> ExpectedInputMap(workflowVariableMap, fixedInputs, defaultInputs)],
           err |-> NilError]}

\* A schedule check that takes any free input as the kickoff-time argument.
validateSchedule_AnyType(schedule, expectedInputs) ==
    IF schedule.CronExpression # "" \/ schedule.Rate # "nil"
    THEN LET unbound == {name \in Keys(expectedInputs.Parameters) :
                            /\ GetRequired(expectedInputs.Parameters[name])
                            /\ name # schedule.KickoffTimeInputArg}
         IN  IF unbound # {}
             THEN {InvalidArgument("Cannot create a launch plan with a schedule if there is an unbound required input. ["
                                   \o name \o "] is required") : name \in unbound}
             ELSE IF schedule.KickoffTimeInputArg # ""
                     /\ schedule.KickoffTimeInputArg \notin Keys(expectedInputs.Parameters)
             THEN {InvalidArgument("Cannot create a schedule with a KickoffTimeInputArg that does not point to a free input. ["
                                   \o schedule.KickoffTimeInputArg \o "] is not free or does not exist.")}
             ELSE {NilError}
    ELSE {NilError}

\* validateSchedule(request, expectedInputs): the errors it can return, NilError for
\* acceptance; schedule is request.GetSpec().GetEntityMetadata().GetSchedule().
validateSchedule(schedule, expectedInputs) ==
    IF schedule.CronExpression # "" \/ schedule.Rate # "nil"
    THEN LET unbound == {name \in Keys(expectedInputs.Parameters) :
                            /\ GetRequired(expectedInputs.Parameters[name])
                            /\ name # schedule.KickoffTimeInputArg}
         IN  IF unbound # {}
             THEN {InvalidArgument("Cannot create a launch plan with a schedule if there is an unbound required input. ["
                                   \o name \o "] is required") : name \in unbound}
             ELSE IF schedule.KickoffTimeInputArg # ""
             THEN IF schedule.KickoffTimeInputArg \notin Keys(expectedInputs.Parameters)
                  THEN {InvalidArgument("Cannot create a schedule with a KickoffTimeInputArg that does not point to a free input. ["
                                   \o schedule.KickoffTimeInputArg \o "] is not free or does not exist.")}
                  ELSE IF GetSimple(expectedInputs.Parameters[schedule.KickoffTimeInputArg].Var.Type)
                              # "DATETIME"
                  THEN {InvalidArgument("KickoffTimeInputArg must reference a datetime input. ["
                                        \o schedule.KickoffTimeInputArg \o "] is a ["
                                        \o expectedInputs.Parameters[schedule.KickoffTimeInputArg].Var.Type
                                        \o "]")}
                  ELSE {NilError}
             ELSE {NilError}
    ELSE {NilError}

\* The workflow interfaces, launch plan inputs and schedules of the requests.
WorkflowVariableMaps ==
    [InputNames -> {NoVariable} \cup {Variable(t, "workflow input") : t \in LiteralTypes}]
FixedInputMaps == [InputNames -> {NoLiteral} \cup {Literal(t) : t \in SimpleTypes}]
DefaultInputMaps ==
    [InputNames -> {NoParameter}
                       \cup {Parameter(t, "launch plan input", b) :
                                t \in LiteralTypes, b \in {"Default", "Required(true)"}}
                       \cup {Parameter("INTEGER", "launch plan input", "Required(false)")}]
Schedules ==
    {[CronExpression |-> cron, Rate |-> rate, KickoffTimeInputArg |-> arg] :
        cron \in {"", "0 * * * *"}, rate \in {"nil", "1 hour"},
        arg \in {"", "kickoff_time", "x", "undeclared"}}

\* ValidateLaunchPlan from the fetch of the expected inputs on, for a request whose
\* identifiers, maps and notifications are valid.  lp keeps the request as it came in;
\* specDefaultInputs is request.Spec.DefaultInputs as the call leaves it.
ValidateLaunchPlan ==
    /\ ~lp.done
    /\ \E workflowInputs \in WorkflowVariableMaps, fixedInputs \in FixedInputMaps,
          defaultInputs \in DefaultInputMaps, schedule \in Schedules :
          \E fetched \in checkAndFetchExpectedInputForLaunchPlan(workflowInputs, fixedInputs,
                                                                 defaultInputs) :
             LET request == [NoLaunchPlan EXCEPT !.done = TRUE,
                                                 !.workflowInputs = workflowInputs,
                                                 !.fixedInputs = fixedInputs,
                                                 !.defaultInputs = defaultInputs,
                                                 !.specDefaultInputs = defaultInputs,
                                                 !.schedule = schedule,
                                                 !.fetchErr = fetched.err]
             IN  IF fetched.err # NilError
                 THEN lp' = [request EXCEPT !.err = fetched.err]
                 ELSE \E scheduleErr \in validateSchedule(schedule, fetched.expectedInputs) :
                         lp' = [request EXCEPT
                                   !.expectedInputs = fetched.expectedInputs,
                                   !.scheduleChecked = TRUE,
                                   !.scheduleErr = scheduleErr,
                                   !.err = scheduleErr,
                                   !.specDefaultInputs =
                                       IF scheduleErr = NilError
                                       THEN fetched.expectedInputs.Parameters ELSE @]
    /\ UNCHANGED <<options, sm, fs, ext, cfg, server, setup, demux, rpc, oauth2Call,
                   registry, registryCalls, dbError, prepare, forks>>

NextLaunchPlan == ValidateLaunchPlan

SpecLaunchPlan == InitPkgs /\ [][NextLaunchPlan]_vars

-----------------------------------------------------------------------------
(* C17 *)

\* The launch plan has a schedule: a cron expression or a rate.
Scheduled == lp.schedule.CronExpression # "" \/ lp.schedule.Rate # "nil"

\* The expected input under the kickoff-time argument, none when the argument names
\* no input.
KickoffInput ==
    IF lp.schedule.KickoffTimeInputArg \in InputNames
    THEN lp.expectedInputs.Parameters[lp.schedule.KickoffTimeInputArg]
    ELSE NoParameter

\* C17: validateSchedule accepts every launch plan without a schedule; it accepts a
\* scheduled one exactly when every expected input marked required is the
\* kickoff-time argument and, if a kickoff-time argument is named, that argument is
\* an expected input of simple type datetime; every rejection is InvalidArgument.
C17_ScheduleNeedsBoundInputs ==
    (lp.done /\ lp.scheduleChecked) =>
        LET accepted == lp.scheduleErr = NilError
            requiredAreKickoff ==
                \A name \in InputNames :
                    (lp.expectedInputs.Parameters[name].found
                        /\ lp.expectedInputs.Parameters[name].Behavior = "Required(true)")
                    => name = lp.schedule.KickoffTimeInputArg
            kickoffIsDatetime ==
                lp.schedule.KickoffTimeInputArg # ""
                    => (KickoffInput.found /\ KickoffInput.Var.Type = "DATETIME")
        IN  /\ ~Scheduled => accepted
            /\ Scheduled => (accepted <=> (requiredAreKickoff /\ kickoffIsDatetime))
            /\ ~accepted => lp.scheduleErr.code = "InvalidArgument"

\* A scheduled launch plan whose kickoff-time argument is a free input of a type
\* other than datetime, every other input being bound: rejected.
C17_Witness ==
    /\ lp.done
    /\ lp.scheduleChecked
    /\ Scheduled
    /\ KickoffInput.found
    /\ KickoffInput.Var.Type = "INTEGER"
    /\ \A name \in InputNames :
          GetRequired(lp.expectedInputs.Parameters[name]) => name = lp.schedule.KickoffTimeInputArg
    /\ lp.scheduleErr.code = "InvalidArgument"

-----------------------------------------------------------------------------
(* C18 *)

\* The launch plan names an input the workflow does not declare.
NamesUndeclaredInput ==
    \E name \in InputNames :
        /\ lp.defaultInputs[name].found \/ lp.fixedInputs[name].found
        /\ ~lp.workflowInputs[name].found

\* C18: a successful fetch returns, for each workflow input, the launch plan's
\* default parameter if there is one, a required parameter with the workflow
\* variable's type and description if the launch plan has neither a default nor a
\* fixed value for it, and no entry if it has only a fixed value; the fetch fails
\* with InvalidArgument when the launch plan names an input the workflow does not
\* declare, in particular when the workflow declares none.
C18_ExpectedInputs ==
    lp.done =>
        /\ lp.fetchErr = NilError =>
              \A name \in InputNames :
                  lp.workflowInputs[name].found =>
                      LET got == lp.expectedInputs.Parameters[name]
                      IN  IF lp.defaultInputs[name].found
                          THEN got = lp.defaultInputs[name]
                          ELSE IF lp.fixedInputs[name].found
                          THEN ~got.found
                          ELSE /\ got.found
                               /\ got.Behavior = "Required(true)"
                               /\ got.Var.Type = lp.workflowInputs[name].Type
                               /\ got.Var.Description = lp.workflowInputs[name].Description
        /\ NamesUndeclaredInput => lp.fetchErr.code = "InvalidArgument"

\* A workflow with one input the launch plan gives both a default and a fixed value
\* for, and one it leaves alone: the default is kept and the other is required.
C18_Witness ==
    /\ lp.done
    /\ lp.fetchErr = NilError
    /\ lp.workflowInputs["x"].found
    /\ lp.defaultInputs["x"].found
    /\ lp.fixedInputs["x"].found
    /\ lp.expectedInputs.Parameters["x"] = lp.defaultInputs["x"]
    /\ lp.workflowInputs["kickoff_time"].found
    /\ ~lp.defaultInputs["kickoff_time"].found
    /\ ~lp.fixedInputs["kickoff_time"].found
    /\ GetRequired(lp.expectedInputs.Parameters["kickoff_time"])

====
